---- MODULE Spec2Model ----
(***************************************************************************)
(* Model of src/script.py: class FileSync, a one-way directory mirror.     *)
(* The two directory trees are functions from relative paths to entries;   *)
(* every filesystem call of the script is one step of the model.           *)
(***************************************************************************)
EXTENDS Integers, Sequences, FiniteSets, TLC

VARIABLES
    src,        \* the tree under source_path   (relative path -> entry)
    rep,        \* the tree under replica_path  (relative path -> entry)
    logExists,  \* log_path exists
    pc,         \* position of the process
    amount,     \* self.sync_amount
    i,          \* loop variable of sync()
    ctr,        \* the five counters of the running iteration
    log,        \* the records passed to log_sync_info, in order
    stack,      \* os.walk frames of the running pass
    cp,         \* the copy_file call in progress
    faults,     \* number of injected I/O failures so far
    hist,       \* the step taken last on an entry (observation only)
    snap,       \* the replica tree at construction, then at the last report
                \* (observation only)
    runs        \* how often the program was started again after a kill

vars == <<src, rep, logExists, pc, amount, i, ctr, log, stack, cp, faults, hist, snap,
          runs>>

----------------------------------------------------------------------------
(* Bounds *)

MaxFaults == 1      \* injected I/O failures per behaviour
MaxAmount == 2      \* largest sync_amount

----------------------------------------------------------------------------
(* Names and paths. A name is <<stem, suffix>>, a path a sequence of names *)
(* relative to the root; <<>> is the root itself.                          *)

A_TXT == <<"a", ".txt">>
A_TMP == <<"a", ".tmp">>
D     == <<"d", "">>
D_TMP == <<"d", ".tmp">>

RootNames == {A_TXT, A_TMP, D, D_TMP}
SubNames  == {A_TXT, A_TMP}

Paths == {<< >>} \cup {<<n>> : n \in RootNames} \cup {<<D, n>> : n \in SubNames}

Parent(p) == SubSeq(p, 1, Len(p) - 1)

\* pathlib: Path.with_suffix(suffix) replaces the suffix of the last component
with_suffix(p, suffix) == [p EXCEPT ![Len(p)] = <<p[Len(p)][1], suffix>>]

----------------------------------------------------------------------------
(* Entries *)

Absent     == [type |-> "absent", content |-> << >>, mtime |-> [sec |-> 0, ns |-> 0]]
Dir        == [type |-> "dir",    content |-> << >>, mtime |-> [sec |-> 0, ns |-> 0]]
File(c, m) == [type |-> "file",   content |-> c,     mtime |-> m]

\* time.time() while a copy is being written
Now == [sec |-> 9, ns |-> 3]

fA == File(<<1, 2>>, [sec |-> 2, ns |-> 0])
fB == File(<<2, 1>>, [sec |-> 3, ns |-> 5])
fC == File(<<1>>,    [sec |-> 4, ns |-> 0])

exists(fs, p)  == fs[p].type # "absent"
is_file(fs, p) == fs[p].type = "file"
is_dir(fs, p)  == fs[p].type = "dir"

\* os.scandir: the entries directly below a directory
Below(fs, p)   == {q \in Paths : Len(q) = Len(p) + 1 /\ Parent(q) = p /\ exists(fs, q)}
\* everything below a path, at any depth
Under(p)       == {q \in Paths : Len(q) > Len(p) /\ SubSeq(q, 1, Len(p)) = p}

\* a tree is well formed when every entry lies in a directory
WellFormed(fs) == \A p \in Paths : (p # << >> /\ exists(fs, p)) => is_dir(fs, Parent(p))

----------------------------------------------------------------------------
(* Change detector *)

\* hashlib.md5 over the chunks of a file: an injective digest of the bytes
RECURSIVE md5(_)
md5(c) == IF c = << >> THEN 1 ELSE 3 * md5(SubSeq(c, 1, Len(c) - 1)) + c[Len(c)]

\* os.stat(...).st_size; a directory reports a size no modelled file has
DirSize == 4096
st_size(e) == IF e.type = "dir" THEN DirSize ELSE Len(e.content)

\* calculate_file_hash: None (written 0, which no digest equals) when
\* open/read raises (not a regular file, or an I/O failure `fail`),
\* otherwise the digest
calculate_file_hash(e, fail) ==
    IF fail \/ e.type # "file" THEN 0 ELSE md5(e.content)

\* the comparison reaches the two calculate_file_hash calls of line 93
ReachesHash(s, r) ==
    /\ s.type # "absent" /\ r.type # "absent"
    /\ st_size(s) = st_size(r)
    /\ ~(s.mtime.sec = r.mtime.sec /\ r.mtime.ns = 0)

\* are_files_different(source_file, replica_file); fs, fr: the hash of the
\* source, of the replica file fails
are_files_different(s, r, fs, fr) ==
    IF s.type = "absent" \/ r.type = "absent" THEN TRUE          \* FileNotFoundError
    ELSE IF st_size(s) # st_size(r) THEN TRUE
    \* int(source_stat.st_mtime) == replica_stat.st_mtime
    ELSE IF s.mtime.sec = r.mtime.sec /\ r.mtime.ns = 0 THEN FALSE
    ELSE IF r.type = "absent" THEN TRUE
    ELSE calculate_file_hash(s, fs) # calculate_file_hash(r, fr)

----------------------------------------------------------------------------
(* Initial states *)

ZeroCtr == [files_copied |-> 0, files_removed |-> 0, dirs_created |-> 0,
            dirs_removed |-> 0, errors |-> 0]
NoCopy  == [step |-> "none", sf |-> << >>, rf |-> << >>, tmp |-> << >>,
            pre |-> Absent, preTmp |-> Absent, hfail |-> FALSE]
NoHist  == [op |-> "none", path |-> << >>, fail |-> FALSE, verdict |-> FALSE]

\* the tree below a root of the given kind ("absent", "file" or "dir")
Tree(root, a_txt, a_tmp, d, d_tmp, d_a_txt, d_a_tmp) ==
    [p \in Paths |->
        IF p = << >> THEN (IF root = "dir" THEN Dir ELSE IF root = "file" THEN fC ELSE Absent)
        ELSE IF root # "dir" THEN Absent
        ELSE IF p = <<A_TXT>> THEN a_txt
        ELSE IF p = <<A_TMP>> THEN a_tmp
        ELSE IF p = <<D>> THEN d
        ELSE IF p = <<D_TMP>> THEN d_tmp
        ELSE IF d.type # "dir" THEN Absent
        ELSE IF p = <<D, A_TXT>> THEN d_a_txt
        ELSE d_a_tmp]

SrcTrees ==
    {Tree(k, a, t, d, Absent, c, Absent) :
        k \in {"absent", "file", "dir"}, a \in {Absent, fA}, t \in {Absent, fB},
        d \in {Absent, fA, Dir}, c \in {Absent, fB}}

RepTrees ==
    {Tree(k, a, t, d, Absent, c, u) :
        k \in {"absent", "dir"}, a \in {Absent, fA, fB, fC}, t \in {Absent, fB, fC},
        d \in {Absent, fC, Dir}, c \in {Absent, fB, fC}, u \in {Absent, fC}}

Init ==
    /\ src \in SrcTrees
    /\ rep \in RepTrees
    /\ logExists \in BOOLEAN
    /\ amount \in 1..MaxAmount
    /\ pc = "ctor"
    /\ i = 0
    /\ ctr = ZeroCtr
    /\ log = << >>
    /\ stack = << >>
    /\ cp = NoCopy
    /\ faults = 0
    /\ hist = NoHist
    /\ snap = rep
    /\ runs = 0

----------------------------------------------------------------------------
(* FileSync.__init__ and validate_paths *)

\* validate_paths runs before self.logger is assigned (line 28 before line
\* 30): its two self.logger.info calls raise AttributeError, so the
\* os.makedirs of line 53 and the open of line 58 are never reached.
validate_paths ==
    IF ~exists(src, << >>) THEN "FileNotFoundError"
    ELSE IF ~exists(rep, << >>) THEN "AttributeError"
    ELSE IF ~logExists THEN "AttributeError"
    ELSE "ok"

Construct ==
    /\ pc = "ctor"
    /\ pc' = IF validate_paths = "ok" THEN "sync" ELSE "failed"
    /\ hist' = [op |-> "ctor", path |-> << >>, fail |-> validate_paths # "ok", verdict |-> FALSE]
    /\ UNCHANGED <<src, runs, snap, rep, logExists, amount, i, ctr, log, stack, cp, faults>>

----------------------------------------------------------------------------
(* os.walk frames *)

Top        == stack[Len(stack)]
SetTop(f)  == [stack EXCEPT ![Len(stack)] = f]
Pop        == SubSeq(stack, 1, Len(stack) - 1)
Last(p)    == p[Len(p)]

\* one os.scandir of directory p: the (root, dirs, files) triple os.walk
\* will yield for it; `walk` are the directories still to be descended into.
\* The order of the names is the order of the directory listing, which the
\* program does not control: the loops below take the names in any order.
Scan(fs, p, isFresh) ==
    [root  |-> p,
     files |-> {Last(q) : q \in {x \in Below(fs, p) : ~is_dir(fs, x)}},
     dirs  |-> {Last(q) : q \in {x \in Below(fs, p) : is_dir(fs, x)}},
     walk  |-> {Last(q) : q \in {x \in Below(fs, p) : is_dir(fs, x)}},
     fresh |-> isFresh]

\* os.walk(top): nothing is yielded when top cannot be listed
StartWalk(fs, isFresh) ==
    IF is_dir(fs, << >>) THEN <<Scan(fs, << >>, isFresh)>> ELSE << >>

Prefixes(p) == {SubSeq(p, 1, k) : k \in 0..Len(p)}

\* os.makedirs(p, exist_ok=True) / Path.mkdir(parents=True, exist_ok=True):
\* raises when p or one of its ancestors is not a directory
makedirs_ok(fs, p) == \A q \in Prefixes(p) : fs[q].type \in {"absent", "dir"}
\* makedirs that creates the missing ancestors of p but not p itself
makedirs_parents_only(fs, p) ==
    [q \in Paths |-> IF q \in Prefixes(p) \ {p} /\ ~exists(fs, q) THEN Dir ELSE fs[q]]

makedirs(fs, p) ==
    [q \in Paths |-> IF q \in Prefixes(p) /\ ~exists(fs, q) THEN Dir ELSE fs[q]]

CanFault == faults < MaxFaults

----------------------------------------------------------------------------
(* sync(): start of an iteration, lines 133-147 *)

IterStart ==
    /\ pc = "sync"
    /\ ctr' = ZeroCtr
    /\ stack' = StartWalk(src, TRUE)
    /\ pc' = "fwd"
    /\ hist' = [op |-> "iter", path |-> << >>, fail |-> FALSE, verdict |-> FALSE]
    /\ UNCHANGED <<src, runs, snap, rep, logExists, amount, i, log, cp, faults>>

----------------------------------------------------------------------------
(* sync_source_to_replica *)

\* line 169: os.makedirs(replica_dir_path, exist_ok=True); an exception here
\* is caught nowhere in the class and leaves sync()
FwdMakedirs ==
    /\ pc = "fwd" /\ stack # << >> /\ Top.fresh
    /\ \E fail \in {FALSE} \cup {f \in {TRUE} : CanFault /\ ~exists(rep, Top.root)} :
         /\ IF makedirs_ok(rep, Top.root) /\ ~fail
            THEN /\ rep' = makedirs(rep, Top.root)
                 /\ stack' = SetTop([Top EXCEPT !.fresh = FALSE])
                 /\ pc' = "fwd"
            ELSE /\ pc' = "crashed"
                 /\ UNCHANGED <<rep, stack>>
         /\ faults' = IF fail THEN faults + 1 ELSE faults
         /\ hist' = [op |-> "makedirs", path |-> Top.root,
                     fail |-> ~(makedirs_ok(rep, Top.root) /\ ~fail), verdict |-> FALSE]
    /\ UNCHANGED <<src, runs, snap, logExists, amount, i, ctr, log, cp>>

\* lines 171-175: the next file of the listing goes through the change
\* detector; a positive verdict enters copy_file
FwdFile(n) ==
    /\ pc = "fwd" /\ stack # << >> /\ ~Top.fresh /\ n \in Top.files
    /\ LET f == Append(Top.root, n)
           s == src[f]
           r == rep[f]
       IN \E fs \in {FALSE} \cup {x \in {TRUE} : CanFault /\ ReachesHash(s, r)},
             fr \in {FALSE} \cup {x \in {TRUE} : CanFault /\ ReachesHash(s, r)} :
            /\ faults' = IF fs \/ fr THEN faults + 1 ELSE faults
            /\ hist' = [op |-> "compare", path |-> f,
                        fail |-> ReachesHash(s, r)
                                  /\ (calculate_file_hash(s, fs) = 0
                                      \/ calculate_file_hash(r, fr) = 0),
                        verdict |-> are_files_different(s, r, fs, fr)]
            /\ IF are_files_different(s, r, fs, fr)
               THEN /\ pc' = "copy"
                    /\ cp' = [step |-> "open", sf |-> f, rf |-> f,
                              tmp |-> with_suffix(f, ".tmp"),
                              pre |-> rep[f], preTmp |-> rep[with_suffix(f, ".tmp")],
                              hfail |-> hist'.fail]
                    /\ UNCHANGED stack
               ELSE /\ stack' = SetTop([Top EXCEPT !.files = @ \ {n}])
                    /\ UNCHANGED <<pc, cp>>
    /\ UNCHANGED <<src, runs, snap, rep, logExists, amount, i, ctr, log>>

----------------------------------------------------------------------------
(* copy_file *)

\* lines 176-181: copy_file has returned `ok` to sync_source_to_replica
CopyReturn(ok) ==
    /\ ctr' = IF ok THEN [ctr EXCEPT !.files_copied = @ + 1]
                    ELSE [ctr EXCEPT !.errors = @ + 1]
    /\ stack' = SetTop([Top EXCEPT !.files = @ \ {Last(cp.rf)}])
    /\ pc' = "fwd"
    /\ cp' = NoCopy
    /\ hist' = [op |-> "copy", path |-> cp.rf, fail |-> ~ok, verdict |-> FALSE]

\* lines 100-102: tmp = replica_file.with_suffix('.tmp'), the parent
\* directory is ensured, and shutil.copy2 opens tmp for writing, which
\* creates or truncates it. (No modelled directory has the suffix .tmp, so
\* copy2 never takes its "destination is a directory" branch.)
CopyOpen ==
    /\ pc = "copy" /\ cp.step = "open"
    /\ IF makedirs_ok(rep, Parent(cp.rf))
       THEN /\ rep' = [makedirs(rep, Parent(cp.rf)) EXCEPT ![cp.tmp] = File(<< >>, Now)]
            /\ cp' = [cp EXCEPT !.step = "write"]
            /\ UNCHANGED <<pc, ctr, stack, hist>>
       ELSE /\ CopyReturn(FALSE)
            /\ UNCHANGED rep
    /\ UNCHANGED <<src, runs, snap, logExists, amount, i, log, faults>>

\* shutil.copy2 writes the next chunk of the source file to tmp
CopyWrite ==
    /\ pc = "copy" /\ cp.step = "write"
    /\ LET want == src[cp.sf].content
           have == rep[cp.tmp].content
           next == Append(have, want[Len(have) + 1])
       IN /\ rep' = [rep EXCEPT ![cp.tmp] = File(next, Now)]
          /\ cp' = [cp EXCEPT !.step = IF next = want THEN "stat" ELSE "write"]
    /\ UNCHANGED <<src, runs, snap, logExists, pc, amount, i, ctr, log, stack, faults, hist>>

\* copystat with its arguments exchanged: the source file gets tmp's time
CopyStat_swapped ==
    /\ pc = "copy" /\ cp.step = "stat"
    /\ src' = [src EXCEPT ![cp.sf] = File(src[cp.sf].content, rep[cp.tmp].mtime)]
    /\ cp' = [cp EXCEPT !.step = "replace"]
    /\ UNCHANGED <<rep, runs, snap, logExists, pc, amount, i, ctr, log, stack, faults, hist>>

\* shutil.copy2 ends with copystat: tmp gets the source's modification time
CopyStat ==
    /\ pc = "copy" /\ cp.step = "stat"
    /\ rep' = [rep EXCEPT ![cp.tmp] = File(rep[cp.tmp].content, src[cp.sf].mtime)]
    /\ cp' = [cp EXCEPT !.step = "replace"]
    /\ UNCHANGED <<src, runs, snap, logExists, pc, amount, i, ctr, log, stack, faults, hist>>

\* os.replace(tmp, replica_file): a rename; renaming a file onto a directory
\* raises, renaming a path onto itself changes nothing
replace(fs, from, to) ==
    IF from = to THEN fs
    ELSE [fs EXCEPT ![to] = fs[from], ![from] = Absent]

\* line 103, then return True; or the except branch, return False
CopyReplace ==
    /\ pc = "copy" /\ cp.step = "replace"
    /\ IF is_dir(rep, cp.rf)
       THEN /\ CopyReturn(FALSE)
            /\ UNCHANGED rep
       ELSE /\ rep' = replace(rep, cp.tmp, cp.rf)
            /\ CopyReturn(TRUE)
    /\ UNCHANGED <<src, runs, snap, logExists, amount, i, log, faults>>

\* an I/O failure (disk full, permission denied) at the step copy_file is
\* about to take: the exception is caught at line 106, return False
CopyFault ==
    /\ pc = "copy" /\ CanFault
    /\ faults' = faults + 1
    /\ CopyReturn(FALSE)
    /\ UNCHANGED <<src, runs, snap, rep, logExists, amount, i, log>>

----------------------------------------------------------------------------
(* sync_source_to_replica, continued *)

\* FwdDir with dirs_created += 1 outside the test of line 185
FwdDir_countall(n) ==
    /\ pc = "fwd" /\ stack # << >> /\ ~Top.fresh /\ Top.files = {} /\ n \in Top.dirs
    /\ LET d == Append(Top.root, n)
       IN IF exists(rep, d)
          THEN /\ stack' = SetTop([Top EXCEPT !.dirs = @ \ {n}])
               /\ hist' = [op |-> "dir", path |-> d, fail |-> FALSE, verdict |-> FALSE]
               /\ ctr' = [ctr EXCEPT !.dirs_created = @ + 1]
               /\ UNCHANGED <<rep, pc, faults>>
          ELSE \E fail \in {FALSE} \cup {f \in {TRUE} : CanFault} :
                 /\ faults' = IF fail THEN faults + 1 ELSE faults
                 /\ hist' = [op |-> "mkdir", path |-> d, fail |-> fail, verdict |-> FALSE]
                 /\ IF fail
                    THEN /\ pc' = "crashed"
                         /\ UNCHANGED <<rep, ctr, stack>>
                    ELSE /\ rep' = makedirs(rep, d)
                         /\ ctr' = [ctr EXCEPT !.dirs_created = @ + 1]
                         /\ stack' = SetTop([Top EXCEPT !.dirs = @ \ {n}])
                         /\ pc' = "fwd"
    /\ UNCHANGED <<src, runs, snap, logExists, amount, i, log, cp>>

\* lines 182-188: the next subdirectory of the listing; an exception of
\* mkdir is caught nowhere and leaves sync()
FwdDir(n) ==
    /\ pc = "fwd" /\ stack # << >> /\ ~Top.fresh /\ Top.files = {} /\ n \in Top.dirs
    /\ LET d == Append(Top.root, n)
       IN IF exists(rep, d)
          THEN /\ stack' = SetTop([Top EXCEPT !.dirs = @ \ {n}])
               /\ hist' = [op |-> "dir", path |-> d, fail |-> FALSE, verdict |-> FALSE]
               /\ UNCHANGED <<rep, ctr, pc, faults>>
          ELSE \E fail \in {FALSE} \cup {f \in {TRUE} : CanFault} :
                 /\ faults' = IF fail THEN faults + 1 ELSE faults
                 /\ hist' = [op |-> "mkdir", path |-> d, fail |-> fail, verdict |-> FALSE]
                 /\ IF fail
                    THEN /\ pc' = "crashed"
                         /\ UNCHANGED <<rep, ctr, stack>>
                    ELSE /\ rep' = makedirs(rep, d)
                         /\ ctr' = [ctr EXCEPT !.dirs_created = @ + 1]
                         /\ stack' = SetTop([Top EXCEPT !.dirs = @ \ {n}])
                         /\ pc' = "fwd"
    /\ UNCHANGED <<src, runs, snap, logExists, amount, i, log, cp>>

\* os.walk, top-down: after the loop body, descend into a listed directory
FwdDescend(n) ==
    /\ pc = "fwd" /\ stack # << >> /\ ~Top.fresh
    /\ Top.files = {} /\ Top.dirs = {} /\ n \in Top.walk
    /\ stack' = IF is_dir(src, Append(Top.root, n))
                THEN Append(SetTop([Top EXCEPT !.walk = @ \ {n}]),
                            Scan(src, Append(Top.root, n), TRUE))
                ELSE SetTop([Top EXCEPT !.walk = @ \ {n}])
    /\ UNCHANGED <<src, runs, snap, rep, logExists, pc, amount, i, ctr, log, cp, faults, hist>>

\* os.walk: a directory and everything below it is done
FwdPop ==
    /\ pc = "fwd" /\ stack # << >> /\ ~Top.fresh
    /\ Top.files = {} /\ Top.dirs = {} /\ Top.walk = {}
    /\ stack' = Pop
    /\ UNCHANGED <<src, runs, snap, rep, logExists, pc, amount, i, ctr, log, cp, faults, hist>>

\* line 190 and line 148: the forward pass returns, clean_replica starts
\* its bottom-up os.walk of the replica
FwdEnd ==
    /\ pc = "fwd" /\ stack = << >>
    /\ pc' = "clean"
    /\ stack' = StartWalk(rep, FALSE)
    /\ hist' = [op |-> "fwdend", path |-> << >>, fail |-> FALSE, verdict |-> FALSE]
    /\ UNCHANGED <<src, runs, snap, rep, logExists, amount, i, ctr, log, cp, faults>>

----------------------------------------------------------------------------
(* remove_file_or_directory and clean_replica *)

\* path.unlink() for a regular file, shutil.rmtree(path) otherwise; rmtree
\* of a missing path raises, and every exception is caught and only logged
remove_file_or_directory(fs, p) ==
    IF is_file(fs, p) THEN [fs EXCEPT ![p] = Absent]
    ELSE IF is_dir(fs, p)
         THEN [q \in Paths |-> IF q = p \/ q \in Under(p) THEN Absent ELSE fs[q]]
         ELSE fs

\* the trees a failing removal can leave: unlink removes nothing; rmtree
\* stops at the failure, after it has removed some of what lies below p
remove_failed(fs, p) ==
    IF is_dir(fs, p)
    THEN {[q \in Paths |-> IF q \in S THEN Absent ELSE fs[q]] :
             S \in {T \in SUBSET Under(p) :
                      \A q \in T : \A x \in Under(q) : exists(fs, x) => x \in T}}
    ELSE {fs}

\* os.walk, bottom-up: the directories listed in a frame are walked before
\* the frame itself is yielded
CleanDescend(n) ==
    /\ pc = "clean" /\ stack # << >> /\ n \in Top.walk
    /\ stack' = IF is_dir(rep, Append(Top.root, n))
                THEN Append(SetTop([Top EXCEPT !.walk = @ \ {n}]),
                            Scan(rep, Append(Top.root, n), FALSE))
                ELSE SetTop([Top EXCEPT !.walk = @ \ {n}])
    /\ UNCHANGED <<src, runs, snap, rep, logExists, pc, amount, i, ctr, log, cp, faults, hist>>

\* CleanEntry with the source path of line 203/211 built from source_root
\* instead of source_dir_path
CleanEntry_rootpath(n, counter) ==
    LET r == Append(Top.root, n)
    IN IF exists(src, <<n>>)
       THEN /\ hist' = [op |-> "keep", path |-> r, fail |-> FALSE, verdict |-> FALSE]
            /\ UNCHANGED <<rep, ctr, faults>>
       ELSE \E fail \in {FALSE} \cup {f \in {TRUE} : CanFault /\ exists(rep, r)} :
              /\ faults' = IF fail THEN faults + 1 ELSE faults
              /\ hist' = [op |-> "remove", path |-> r, fail |-> fail \/ ~exists(rep, r),
                          verdict |-> FALSE]
              /\ IF fail THEN rep' \in remove_failed(rep, r)
                         ELSE rep' = remove_file_or_directory(rep, r)
              /\ ctr' = [ctr EXCEPT ![counter] = @ + 1]

\* the removal of one listed entry, lines 205-207 and 213-215: the counter
\* is incremented after the call whatever the call did
CleanEntry(n, counter) ==
    LET r == Append(Top.root, n)
    IN IF exists(src, r)
       THEN /\ hist' = [op |-> "keep", path |-> r, fail |-> FALSE, verdict |-> FALSE]
            /\ UNCHANGED <<rep, ctr, faults>>
       ELSE \E fail \in {FALSE} \cup {f \in {TRUE} : CanFault /\ exists(rep, r)} :
              /\ faults' = IF fail THEN faults + 1 ELSE faults
              /\ hist' = [op |-> "remove", path |-> r, fail |-> fail \/ ~exists(rep, r), verdict |-> FALSE]
              /\ IF fail THEN rep' \in remove_failed(rep, r)
                         ELSE rep' = remove_file_or_directory(rep, r)
              /\ ctr' = [ctr EXCEPT ![counter] = @ + 1]

\* lines 201-207
CleanFile(n) ==
    /\ pc = "clean" /\ stack # << >> /\ Top.walk = {} /\ n \in Top.files
    /\ CleanEntry(n, "files_removed")
    /\ stack' = SetTop([Top EXCEPT !.files = @ \ {n}])
    /\ UNCHANGED <<src, runs, snap, logExists, pc, amount, i, log, cp>>

\* lines 209-215
CleanDir(n) ==
    /\ pc = "clean" /\ stack # << >> /\ Top.walk = {} /\ Top.files = {} /\ n \in Top.dirs
    /\ CleanEntry(n, "dirs_removed")
    /\ stack' = SetTop([Top EXCEPT !.dirs = @ \ {n}])
    /\ UNCHANGED <<src, runs, snap, logExists, pc, amount, i, log, cp>>

CleanPop ==
    /\ pc = "clean" /\ stack # << >>
    /\ Top.walk = {} /\ Top.files = {} /\ Top.dirs = {}
    /\ stack' = Pop
    /\ UNCHANGED <<src, runs, snap, rep, logExists, pc, amount, i, ctr, log, cp, faults, hist>>

\* line 217: clean_replica returns
CleanEnd ==
    /\ pc = "clean" /\ stack = << >>
    /\ pc' = "report"
    /\ hist' = [op |-> "cleanend", path |-> << >>, fail |-> FALSE, verdict |-> FALSE]
    /\ UNCHANGED <<src, runs, snap, rep, logExists, amount, i, ctr, log, stack, cp, faults>>

----------------------------------------------------------------------------
(* sync(): end of an iteration, lines 151-157 *)

\* log_sync_info, then the test of line 154
Report ==
    /\ pc = "report"
    /\ log' = Append(log, ctr)
    /\ pc' = IF i < amount - 1 THEN "sleep" ELSE "done"
    /\ hist' = [op |-> "report", path |-> << >>, fail |-> FALSE, verdict |-> FALSE]
    /\ snap' = rep
    /\ UNCHANGED <<src, runs, rep, logExists, amount, i, ctr, stack, cp, faults>>

\* time.sleep(self.sync_interval), then the next value of the loop variable
Sleep ==
    /\ pc = "sleep"
    /\ i' = i + 1
    /\ pc' = "sync"
    /\ hist' = [op |-> "sleep", path |-> << >>, fail |-> FALSE, verdict |-> FALSE]
    /\ UNCHANGED <<src, runs, snap, rep, logExists, amount, ctr, log, stack, cp, faults>>

\* the process is killed between two steps
Running == pc \notin {"ctor", "done", "failed", "crashed", "killed"}

Kill ==
    /\ Running
    /\ pc' = "killed"
    /\ UNCHANGED <<src, runs, snap, rep, logExists, amount, i, ctr, log, stack, cp, faults, hist>>

----------------------------------------------------------------------------

Next ==
    \/ Construct
    \/ IterStart
    \/ FwdMakedirs
    \/ \E n \in RootNames : FwdFile(n)
    \/ CopyOpen
    \/ CopyWrite
    \/ CopyStat
    \/ CopyReplace
    \/ CopyFault
    \/ \E n \in RootNames : FwdDir(n)
    \/ \E n \in RootNames : FwdDescend(n)
    \/ FwdPop
    \/ FwdEnd
    \/ \E n \in RootNames : CleanDescend(n)
    \/ \E n \in RootNames : CleanFile(n)
    \/ \E n \in RootNames : CleanDir(n)
    \/ CleanPop
    \/ CleanEnd
    \/ Report
    \/ Sleep
    \/ Kill

Spec == Init /\ [][Next]_vars

TypeOK ==
    /\ pc \in {"ctor", "failed", "sync", "fwd", "copy", "clean", "report",
               "sleep", "done", "crashed", "killed"}
    /\ WellFormed(src)
    /\ faults \in 0..MaxFaults
    /\ i \in 0..(amount - 1)

----------------------------------------------------------------------------
(* The change detector on its own: one source file a.txt, one replica     *)
(* path, sizes, modification times and contents drawn from DetFiles.       *)

DetFiles ==
    {File(c, [sec |-> t, ns |-> n]) :
        c \in {<<1, 2>>, <<2, 1>>, <<1>>}, t \in {2, 3}, n \in {0, 5}}

InitDetect ==
    /\ \E s \in DetFiles :
         src = Tree("dir", s, Absent, Absent, Absent, Absent, Absent)
    /\ \E r \in DetFiles \cup {Absent} :
         rep = Tree("dir", r, Absent, Absent, Absent, Absent, Absent)
    /\ logExists = TRUE
    /\ amount = 1
    /\ pc = "detect"
    /\ i = 0
    /\ ctr = ZeroCtr
    /\ log = << >>
    /\ stack = << >>
    /\ cp = NoCopy
    /\ faults = 0
    /\ hist = NoHist
    /\ snap = rep
    /\ runs = 0

\* are_files_different(source/a.txt, replica/a.txt), both files readable
Detect ==
    /\ pc = "detect"
    /\ pc' = "detected"
    /\ hist' = [op |-> "compare", path |-> <<A_TXT>>, fail |-> FALSE,
                verdict |-> are_files_different(src[<<A_TXT>>], rep[<<A_TXT>>], FALSE, FALSE)]
    /\ UNCHANGED <<src, runs, snap, rep, logExists, amount, i, ctr, log, stack, cp, faults>>

NextDetect == Detect

SpecDetect == InitDetect /\ [][NextDetect]_vars

----------------------------------------------------------------------------
(* Properties *)

\* the mirror invariant: every source file has a replica file of the same
\* content, every source directory a replica directory, and the replica
\* holds nothing else
Mirror ==
    \A p \in Paths :
        /\ is_file(src, p) => (is_file(rep, p) /\ rep[p].content = src[p].content)
        /\ is_dir(src, p) => is_dir(rep, p)
        /\ exists(rep, p) => exists(src, p)

\* C1 - mirror convergence: when an iteration over a source directory has
\* completed both passes and no I/O failure was injected, the replica
\* mirrors the source.
C1_MirrorConvergence ==
    (pc = "report" /\ faults = 0 /\ is_dir(src, << >>)) => Mirror

\* C2 - idempotence: the second of two iterations (no I/O failure injected)
\* reports five zero counters and leaves the replica as the first left it.
C2_Idempotence ==
    (Len(log) = 2 /\ faults = 0) => (log[2] = ZeroCtr /\ rep = snap)

\* the entry a path had before the copy in progress began
BeforeCopy(p) ==
    IF p = cp.rf THEN cp.pre ELSE IF p = cp.tmp THEN cp.preTmp ELSE rep[p]

\* C3 - no partial writes: while copy_file is in progress (also when the
\* process was killed inside it), the final replica path of every source
\* file holds either what it held before the copy began or the complete
\* content of its source file.
C3_NoPartialWrites ==
    cp.step # "none" =>
        \A f \in Paths : is_file(src, f) =>
            \/ rep[f] = BeforeCopy(f)
            \/ (is_file(rep, f) /\ rep[f].content = src[f].content)

\* C4 - a failed copy leaves the destination untouched: whenever copy_file
\* returns False, the entry at replica_file is what it was before the call.
C4_FailedCopyUntouched ==
    [][(pc = "copy" /\ pc' = "fwd" /\ hist'.op = "copy" /\ hist'.fail)
          => rep'[cp.rf] = cp.pre]_vars

\* the decision table of the change detector as the specification states it
NeedsCopy(s, r) ==
    IF r.type = "absent" THEN TRUE
    ELSE IF Len(s.content) # Len(r.content) THEN TRUE
    ELSE IF s.mtime.sec = r.mtime.sec THEN FALSE
    ELSE md5(s.content) # md5(r.content)

\* C5 - decision table: are_files_different answers true for a missing
\* replica file, else true for different sizes, else false for equal
\* whole-second modification times, else true exactly for different hashes.
C5_DecisionTable ==
    pc = "detected" => hist.verdict = NeedsCopy(src[<<A_TXT>>], rep[<<A_TXT>>])

\* C6 - a hash failure is an error, not a verdict: a file whose comparison
\* hit a failing calculate_file_hash is not copied, and errors is
\* incremented by one for it.
C6_HashFailureIsError ==
    [][/\ ((\E n \in RootNames : FwdFile(n)) /\ hist'.fail)
            => (pc' = "fwd" /\ ctr'.errors = ctr.errors + 1)
       /\ (pc = "copy" /\ cp.hfail /\ pc' = "fwd")
            => (rep'[cp.rf] = cp.pre /\ ctr'.errors = ctr.errors)]_vars

\* C7 - a failing removal of an orphan in clean_replica (the source being a
\* directory) increments the errors counter of the iteration, and the pass
\* goes on.
C7_RemovalFailureCounted ==
    [][((\E n \in RootNames : CleanFile(n) \/ CleanDir(n))
            /\ is_dir(src, << >>) /\ hist'.op = "remove" /\ hist'.fail)
          => (ctr'.errors = ctr.errors + 1 /\ pc' = "clean")]_vars

\* C8 - per-item errors never halt the driver: no exception leaves
\* sync_source_to_replica or clean_replica, and a finished sync() has
\* reported every iteration.
C8_NeverHalts ==
    /\ pc # "crashed"
    /\ pc = "done" => Len(log) = amount

\* C9 - pre-flight validation: when source_root is missing or is not a
\* directory, construction fails and the replica stays as it was.
C9_PreflightFatal ==
    (pc # "ctor" /\ ~is_dir(src, << >>)) => (pc = "failed" /\ rep = snap)

\* C10 - an absent replica root (or log file) is created: with a source
\* directory present, construction succeeds and replica_root is a directory.
C10_ReplicaCreated ==
    (pc # "ctor" /\ is_dir(src, << >>)) => (pc # "failed" /\ is_dir(rep, << >>))

\* the order in which sync() moves through an iteration: forward pass (with
\* its copies), cleanup pass, report, then a sleep or the end
Schedule ==
    {<<"sync", "fwd">>, <<"fwd", "copy">>, <<"copy", "fwd">>, <<"fwd", "clean">>,
     <<"clean", "report">>, <<"report", "sleep">>, <<"report", "done">>,
     <<"sleep", "sync">>}

\* C11 - driver schedule: once sync() has started it moves only along
\* forward pass, cleanup pass, report, sleep (unless the process is killed
\* from outside); it runs sync_amount iterations with sync_amount - 1
\* sleeps, none after the last report, and ends in Done.
C11_DriverSchedule ==
    [][(pc \in {"sync", "fwd", "copy", "clean", "report", "sleep"} /\ pc' # pc
            /\ pc' # "killed")
          => /\ <<pc, pc'>> \in Schedule
             /\ pc' = "sleep" => (Len(log') = i + 1 /\ i + 1 < amount)
             /\ pc' = "done" => (Len(log') = amount /\ i = amount - 1)]_vars

\* C12 - type changes: a path below the roots that is a file in the source
\* and a directory in the replica (or the reverse) when an iteration starts holds an entry
\* of the source's type, with the source's content, when the iteration has
\* completed both passes (no I/O failure injected).
C12_TypeChangeReconciled ==
    (pc = "report" /\ faults = 0 /\ is_dir(src, << >>)) =>
        \A p \in Paths \ {<< >>} :
            (exists(src, p) /\ exists(snap, p) /\ snap[p].type # src[p].type)
                => (rep[p].type = src[p].type /\ rep[p].content = src[p].content)

----------------------------------------------------------------------------
(* Interruption and a second run of the program on the same directories:   *)
(* a source directory, an existing replica, one iteration per run, no      *)
(* injected I/O failure.                                                   *)

InitRestart ==
    /\ src \in {t \in SrcTrees : is_dir(t, << >>)}
    /\ rep \in {t \in RepTrees : is_dir(t, << >>)}
    /\ logExists = TRUE
    /\ amount = 1
    /\ pc = "ctor"
    /\ i = 0
    /\ ctr = ZeroCtr
    /\ log = << >>
    /\ stack = << >>
    /\ cp = NoCopy
    /\ faults = MaxFaults
    /\ hist = NoHist
    /\ snap = rep
    /\ runs = 0

\* main() is started again after the process was killed: a new FileSync
\* object on the directories as the killed process left them
Restart ==
    /\ pc = "killed" /\ runs = 0
    /\ runs' = 1
    /\ pc' = "ctor"
    /\ i' = 0
    /\ ctr' = ZeroCtr
    /\ log' = << >>
    /\ stack' = << >>
    /\ cp' = NoCopy
    /\ hist' = NoHist
    /\ snap' = rep
    /\ UNCHANGED <<src, rep, logExists, amount, faults>>

NextRestart ==
    \/ Construct
    \/ IterStart
    \/ FwdMakedirs
    \/ \E n \in RootNames : FwdFile(n)
    \/ CopyOpen
    \/ CopyWrite
    \/ CopyStat
    \/ CopyReplace
    \/ \E n \in RootNames : FwdDir(n)
    \/ \E n \in RootNames : FwdDescend(n)
    \/ FwdPop
    \/ FwdEnd
    \/ \E n \in RootNames : CleanDescend(n)
    \/ \E n \in RootNames : CleanFile(n)
    \/ \E n \in RootNames : CleanDir(n)
    \/ CleanPop
    \/ CleanEnd
    \/ Report
    \/ Kill
    \/ Restart

SpecRestart == InitRestart /\ [][NextRestart]_vars

\* C13 - self-correction: when the process was killed at some step and the
\* program is run again on the unchanged source, the replica mirrors the
\* source (and holds no leftover temporary file) once the new run has
\* completed both passes of an iteration.
C13_SelfCorrection ==
    (runs = 1 /\ pc = "report") => Mirror

\* C14 - cleanup removes only orphans: no step of clean_replica removes or
\* changes a replica entry whose path exists under source_root; what the
\* forward pass mirrored and what is identical to its source file stays.
C14_OnlyOrphansRemoved ==
    [][pc = "clean" => \A p \in Paths : exists(src, p) => rep'[p] = rep[p]]_vars

\* an iteration that copied a file into a directory it created and removed
\* an orphan has completed, and what the forward pass created is still there
C14_Witness ==
    /\ pc = "report" /\ faults = 0 /\ Len(log) = 0
    /\ ctr.files_copied >= 1 /\ ctr.dirs_created >= 1
    /\ ctr.files_removed + ctr.dirs_removed >= 1
    /\ ~exists(snap, <<D>>) /\ is_dir(rep, <<D>>) /\ is_file(rep, <<D, A_TXT>>)

\* the files, the directories a step deletes from the replica
FilesDeleted == {p \in Paths : is_file(rep, p) /\ ~exists(rep', p)}
DirsDeleted  == {p \in Paths : is_dir(rep, p) /\ ~exists(rep', p)}

\* C15 - cleanup counters (the source being a directory): every step of
\* clean_replica adds to files_removed
\* the number of replica files it deleted and to dirs_removed the number of
\* replica directories it deleted, so a removal that failed is counted in
\* neither and nothing is deleted uncounted.
C15_CleanupCountersAccurate ==
    [][(pc = "clean" /\ is_dir(src, << >>)) =>
          /\ ctr'.files_removed = ctr.files_removed + Cardinality(FilesDeleted)
          /\ ctr'.dirs_removed = ctr.dirs_removed + Cardinality(DirsDeleted)]_vars

\* the directories a step creates in the replica
DirsCreated == {p \in Paths : ~is_dir(rep, p) /\ is_dir(rep', p)}
\* the step is the return of copy_file with the given result
CopyReturned(ok) ==
    pc = "copy" /\ pc' = "fwd" /\ hist'.op = "copy" /\ hist'.fail = ~ok

\* what one step of sync_source_to_replica does to the counters
ForwardStepCounts ==
    /\ ctr'.dirs_created = ctr.dirs_created + Cardinality(DirsCreated)
    /\ ctr'.files_copied = ctr.files_copied + (IF CopyReturned(TRUE) THEN 1 ELSE 0)
    /\ ctr'.errors = ctr.errors + (IF CopyReturned(FALSE) THEN 1 ELSE 0)
    /\ ctr'.files_copied + ctr'.errors =< Cardinality({p \in Paths : is_file(src, p)})

\* C16 - forward-pass counters: every step of sync_source_to_replica adds
\* to dirs_created the number of replica directories it created (none for
\* a directory that existed), to files_copied one exactly when copy_file
\* returned True and to errors one exactly when copy_file returned False;
\* the two together never exceed the number of source files.
C16_ForwardCountersAccurate ==
    [][(pc = "fwd" \/ pc = "copy") => ForwardStepCounts]_vars

\* a forward pass has ended that created a directory, left an existing one
\* uncounted, copied a file and failed to copy another
C16_Witness ==
    /\ pc = "clean" /\ hist.op = "fwdend"
    /\ ctr.dirs_created = 1 /\ ctr.files_copied >= 1 /\ ctr.errors >= 1
    /\ is_dir(snap, << >>) /\ ~exists(snap, <<D>>) /\ is_dir(rep, <<D>>)

\* C17 - directory creation precedes copies: whenever copy_file is at work
\* on a file, from its entry on, the mirrored parent directory of that file
\* exists in the replica.
C17_DirectoryBeforeCopy ==
    pc = "copy" => is_dir(rep, Parent(cp.rf))

\* copy_file is entered for d/a.txt in a pass that started without the
\* replica directory d
C17_Witness ==
    /\ pc = "copy" /\ cp.step = "open" /\ cp.rf = <<D, A_TXT>>
    /\ ~exists(snap, <<D>>) /\ is_dir(rep, <<D>>)

\* C18 - copying one file does not disturb another: no step of copy_file
\* changes the replica path that mirrors a different source file.
C18_CopyFrame ==
    [][pc = "copy" =>
          \A p \in Paths : (is_file(src, p) /\ p # cp.rf) => rep'[p] = rep[p]]_vars

====
